---- MODULE Spec2Model ----
(***************************************************************************)
(* Navigation deduplication and tab reuse of the SameTabOpener background  *)
(* script (src/javascripts/background.js).                                 *)
(*                                                                         *)
(* The browser is the environment: it opens, navigates and closes tabs and *)
(* queues the events the script listens to.  Every listener and every      *)
(* continuation of an async function (from one await to the next) is one   *)
(* atomic action, as on the single event loop of the service worker.       *)
(* A browser call takes effect when its awaiting continuation resumes.     *)
(*                                                                         *)
(* Time is counted in seconds.  Date.now() is not stored: a timestamp is   *)
(* kept as the age it has now, a timer as the time it still has to run.    *)
(* A timer shorter than one second (0 ms, 100 ms) runs out before the next *)
(* second starts.                                                          *)
(***************************************************************************)
EXTENDS Integers, Sequences, FiniteSets, Bags, TLC

VARIABLES
  tabUrl,            \* browser: tab id -> its URL, NotYet (id not in use yet) or Gone
  activeTab,         \* browser: the tab last made active
  focusedWin,        \* browser: the window that has the focus
  pending,           \* browser events queued for the listeners
  recentNewTabs,     \* Map tabId -> age of the timestamp, NoEntry when absent
  navigationTabs,    \* Set of tab ids
  ongoingNavigations,\* Set of navigation keys
  isNavigating,      \* the global navigation lock
  procs,             \* the executions of reuseZendeskTab, by slot
  tasks,             \* pending timers and running timer callbacks (a bag)
  sweepLeft,         \* seconds until the clean-up interval fires next
  sweep,             \* the clean-up callback's loop over navigationTabs
  envOps,            \* number of browser-side steps taken so far
  lastExit,          \* history: how the execution that settled last ended
  removeCalls,       \* history: chrome.tabs.remove calls issued per tab
  rejections         \* history: promises of the script that rejected unhandled

vars == << tabUrl, activeTab, focusedWin, pending, recentNewTabs, navigationTabs,
           ongoingNavigations, isNavigating, procs, tasks, sweepLeft, sweep,
           envOps, lastExit, removeCalls, rejections >>

browser == << tabUrl, activeTab, focusedWin >>
tracking == << recentNewTabs, navigationTabs >>
history == << lastExit, removeCalls, rejections >>

----------------------------------------------------------------------------
\* Bounds of the model.

\* Browser-side steps (tab opened, navigation committed, tab closed) per run.
MaxEnv == 2
\* Executions of reuseZendeskTab that may be in flight at once.
MaxProcs == 2
\* lastAccessed values a tabs.query result may carry (0: none reported).
MaxAccessed == 2
\* Calls of chrome.tabs.remove counted per tab.
MaxRemoveCalls == 2
\* Unhandled rejections counted.
MaxRejections == 1

\* Program constants, in milliseconds as in the source.
NEW_TAB_WINDOW_MS == 5000
GLOBAL_FAILSAFE_MS == 3000
KEY_FAILSAFE_MS == 5000
CLOSE_DELAY_MS == 100
FORCE_DELAY_MS == 0

Secs(ms) == ms \div 1000

----------------------------------------------------------------------------
\* URLs.  A URL is kept parsed:
\*   kind   "zd"    https://{sub}.zendesk.com{suffix}/{area}/[#/]{route}/{id}{tail}
\*          "teams" a Teams safelink whose url parameter is the "zd" URL that the
\*                  other fields describe
\*          "other" any other URL (about:blank)
\*   id     the digits at the id position, 0 when there are none

Url(kind, sub, suffix, area, hash, route, id, tail) ==
  [kind |-> kind, sub |-> sub, suffix |-> suffix, area |-> area, hash |-> hash,
   route |-> route, id |-> id, tail |-> tail]

Blank == Url("other", "", "", "", FALSE, "", 0, "")
Ticket(sub, id) == Url("zd", sub, "", "agent", FALSE, "tickets", id, "")
U500 == Ticket("acme", 500)
U80 == Ticket("acme", 80)
UBeta80 == Ticket("beta", 80)
U500Print == [U500 EXCEPT !.tail = "/print"]
UChat == Url("zd", "acme", "", "agent", FALSE, "chat", 0, "")
U500Hash == [U500 EXCEPT !.hash = TRUE]
Teams500 == [U500 EXCEPT !.kind = "teams"]
UView500 == [U500 EXCEPT !.route = "views"]
\* https://acme.zendesk.com/agent/tickets/500abc
U500abc == [U500 EXCEPT !.tail = "abc"]
\* https://acme.zendesk.com.other.tld/agent/tickets/500
USuffix500 == [U500 EXCEPT !.suffix = ".other.tld"]
\* https://intranet/acme.zendesk.com/agent/tickets/500: what stands between "://" and
\* ".zendesk.com" has no dot, and the host is "intranet".
PathSub == "intranet/acme"
UInPath500 == Ticket(PathSub, 500)

\* TICKET_ROUTE = /^https?:\/\/([^.]+)\.zendesk\.com\/agent\/(tickets|views)\/(\d+)/
TICKET_ROUTE(url) ==
  /\ url.kind = "zd"
  /\ url.suffix = ""
  /\ url.area = "agent"
  /\ ~url.hash
  /\ url.route \in {"tickets", "views"}
  /\ url.id > 0

\* HASH_TICKET_ROUTE = /^https?:\/\/([^.]+)\.zendesk\.com\/agent\/#\/(tickets|views)\/(\d+)/
HASH_TICKET_ROUTE(url) ==
  /\ url.kind = "zd"
  /\ url.suffix = ""
  /\ url.area = "agent"
  /\ url.hash
  /\ url.route \in {"tickets", "views"}
  /\ url.id > 0

\* TEAMS_SAFEURL.test(url)
TEAMS_SAFEURL(url) == url.kind = "teams"

NoNumber == 0
NoSub == ""

\* An extraction that knows the path style only.
extractPathTicketNumber(url) ==
  IF TICKET_ROUTE(url) THEN url.id ELSE NoNumber

extractTicketNumber(url) ==
  IF TICKET_ROUTE(url) \/ HASH_TICKET_ROUTE(url) THEN url.id ELSE NoNumber

\* /^https?:\/\/([^.]+)\.zendesk\.com/ : nothing anchors the end of the host.
extractSubdomain(url) ==
  IF url.kind = "zd" THEN url.sub ELSE NoSub

\* new URLSearchParams(...).get('url'), decoded
extractZendeskUrlFromTeams(url) == [url EXCEPT !.kind = "zd"]

\* url.includes('zendesk.com'): the safelink carries the ticket URL in its query.
isZendeskUrl(url) == url.kind \in {"zd", "teams"}

\* `${subdomain}-${ticketNumber}`
NavigationKey(sub, num) == << sub, num >>
NoKey == << NoSub, NoNumber >>

\* `https://${subdomain}.zendesk.com/agent/tickets/${ticketNumber}`
CleanUrl(sub, num) == Ticket(sub, num)

\* The match pattern `*://${subdomain}.zendesk.com/*` of chrome.tabs.query.
MatchesQuery(url, sub) == url.kind = "zd" /\ url.sub = sub /\ url.suffix = ""

\* tab.url.includes('/agent/')
IncludesAgent(url) == url.kind = "zd" /\ url.area = "agent"

\* window.location.pathname.includes('/agent/tickets/'); a hash route has the
\* pathname /agent/.
OnTicketPage(url) ==
  url.kind = "zd" /\ url.area = "agent" /\ ~url.hash /\ url.route = "tickets"

\* isRestrictedZendeskUrl: the host ends with .zendesk.com and the pathname includes
\* /agent/chat, /agent/talk or /agent/voice, or matches /tickets/\d+/print.  With a
\* hash route the pathname is /agent/ and the hash starts with #/, so neither test
\* matches.
isRestrictedZendeskUrl(url) ==
  /\ url.kind = "zd"
  /\ url.suffix = ""
  /\ ~url.hash
  /\ \/ url.area = "agent" /\ url.route \in {"chat", "talk", "voice"}
     \/ url.route = "tickets" /\ url.id > 0 /\ url.tail = "/print"

----------------------------------------------------------------------------
\* Tabs, windows, events.

Tabs == {1, 2, 3}
NoTab == 0
\* What tabUrl holds for a tab id the browser has not handed out yet, and for a tab
\* that was closed (chrome.tabs.get and the other calls on it reject).
NotYet == Url("notyet", "", "", "", FALSE, "", 0, "")
Gone == Url("gone", "", "", "", FALSE, "", 0, "")
Wins == {1, 2}
WinOf(t) == IF t = 3 THEN 2 ELSE 1

IsOpen(t) == tabUrl[t] \notin {NotYet, Gone}
\* chrome.windows.update finds the window while one of its tabs is open.
WinExists(w) == \E t \in Tabs : IsOpen(t) /\ WinOf(t) = w

\* URLs of the tabs the browser starts with, and how many of them there may be.
InitUrls == {U80, U500, UChat}
MaxInitTabs == 2
\* URLs tabs are opened on and navigate to, URLs of links, and the URL of sub-frames.
NavUrls == {U500, U500Print}
LinkUrls == {U500}
FrameUrl == U500

Event(type, tab, src, url, frame) ==
  [type |-> type, tab |-> tab, src |-> src, url |-> url, frame |-> frame]

NoEntry == -1
AgeCap == 2 * Secs(NEW_TAB_WINDOW_MS) + 1

\* A pending timer (pc "timer", left seconds to run) or a timer callback that is
\* waiting for a browser call (pc names the call).  src is the source tab of a forced
\* navigation; for a delayed close it is history: the target of the execution.
Task(kind, pc, left, key, tab, src, url) ==
  [kind |-> kind, pc |-> pc, left |-> left, key |-> key, tab |-> tab, src |-> src,
   url |-> url]

\* setTimeout(() => { isNavigating = false; ... }, 3000)
FlagTimer == Task("flag", "timer", Secs(GLOBAL_FAILSAFE_MS), NoKey, NoTab, NoTab, Blank)
\* setTimeout(() => { ongoingNavigations.delete(navigationKey); }, 5000)
KeyTimer(key) == Task("key", "timer", Secs(KEY_FAILSAFE_MS), key, NoTab, NoTab, Blank)
\* setTimeout(async () => { if (await tabExists(newTabId)) ... }, 100)
CloseTimer(tab, key, target) ==
  Task("close", "timer", Secs(CLOSE_DELAY_MS), key, tab, target, Blank)
\* setTimeout(async () => { ... }, 0) of the navigation-target listener
ForceTimer(src, tab, url) == Task("force", "timer", Secs(FORCE_DELAY_MS), NoKey, tab, src, url)

AddTask(bag, r) == bag (+) SetToBag({r})
DelTask(bag, r) == bag (-) SetToBag({r})
HasTask(r) == BagIn(r, tasks)

\* One execution of reuseZendeskTab: where it waits and its local variables.
\*   calls  history: the browser calls it has issued on tabs and windows
\*   held   history: it has added its key to ongoingNavigations
\*   inPlace history: the injected script reported success (result.success)
IdleProc ==
  [pc |-> "idle", newTab |-> NoTab, url |-> Blank, noReload |-> FALSE, key |-> NoKey,
   target |-> NoTab, targetUrl |-> Blank, calls |-> << >>, held |-> FALSE,
   inPlace |-> FALSE]

Slots == 1..MaxProcs
HasFreeSlot == \E p \in Slots : procs[p].pc = "idle"
FreeSlot == CHOOSE p \in Slots :
              procs[p].pc = "idle" /\ \A q \in Slots : q < p => procs[q].pc # "idle"

NoExit == "none"

Min(a, b) == IF a < b THEN a ELSE b

----------------------------------------------------------------------------
\* Tab tracking.

\* markTabNew: recentNewTabs.set(tabId, Date.now())
markTabNew(recent, tabId) == [recent EXCEPT ![tabId] = 0]

\* A window whose boundary does not count: age < NEW_TAB_WINDOW_MS.
isRecentStrict(tabId) ==
  IF tabId \in navigationTabs THEN FALSE
  ELSE IF recentNewTabs[tabId] = NoEntry THEN FALSE
  ELSE recentNewTabs[tabId] < Secs(NEW_TAB_WINDOW_MS)

\* A tracker that takes every tab for a new one.
AlwaysRecent(tabId) == TRUE

\* isTabRecentlyNew, the value returned.
isTabRecentlyNew(tabId) ==
  IF tabId \in navigationTabs THEN FALSE
  ELSE IF recentNewTabs[tabId] = NoEntry THEN FALSE
  ELSE recentNewTabs[tabId] <= Secs(NEW_TAB_WINDOW_MS)

\* isTabRecentlyNew, the map it leaves: an entry found too old is deleted.
RecentAfterLookup(tabId) ==
  IF /\ tabId \notin navigationTabs
     /\ recentNewTabs[tabId] # NoEntry
     /\ ~(recentNewTabs[tabId] <= Secs(NEW_TAB_WINDOW_MS))
  THEN [recentNewTabs EXCEPT ![tabId] = NoEntry]
  ELSE recentNewTabs

\* clearNavigationTab
clearNavigationTab(tabId) ==
  /\ navigationTabs' = navigationTabs \ {tabId}
  /\ recentNewTabs' = [recentNewTabs EXCEPT ![tabId] = NoEntry]

----------------------------------------------------------------------------
\* reuseZendeskTab.

\* The browser closes a tab: chrome.tabs.remove took effect, or the user closed it.
BrowserCloses(t) ==
  /\ tabUrl' = [tabUrl EXCEPT ![t] = Gone]
  /\ activeTab' = IF activeTab = t THEN NoTab ELSE activeTab
  /\ pending' = pending \cup {Event("removed", t, NoTab, Blank, 0)}

\* A finally block without the reset: what the flag would be left as without it.
FinallySkipped == UNCHANGED isNavigating

\* The finally block: isNavigating = false.
FinallyBlock == isNavigating' = FALSE

\* The execution in slot p settles; every path runs the finally block.
Settle(p, how, rejected) ==
  /\ procs' = [procs EXCEPT ![p] = IdleProc]
  /\ FinallyBlock
  /\ lastExit' = how
  /\ rejections' = IF rejected THEN Min(rejections + 1, MaxRejections) ELSE rejections

\* The key set the catch block leaves.  navigationKey is a const of the try block:
\* evaluating it in the catch block throws a ReferenceError before delete is called.
CatchBlockKeys(key) == ongoingNavigations

\* A catch block that schedules the delayed removal of the new tab as well.
ThrowThenCloses(p) ==
  /\ ongoingNavigations' = ongoingNavigations
  /\ Settle(p, "threw", TRUE)
  /\ tasks' = AddTask(tasks, Task("close", "timer", Secs(CLOSE_DELAY_MS), procs[p].key,
                                  procs[p].newTab, procs[p].target, Blank))
  /\ UNCHANGED << browser, pending, tracking, removeCalls >>

\* A browser call of the try block rejected: catch, then finally; the ReferenceError
\* of the catch block rejects the promise of reuseZendeskTab.
Throw(p) ==
  /\ ongoingNavigations' = CatchBlockKeys(procs[p].key)
  /\ Settle(p, "threw", TRUE)
  /\ UNCHANGED << browser, pending, tracking, tasks, removeCalls >>

\* The keys left by "Clear the navigation tracking": ongoingNavigations.delete(key).
ClearKey(key) == ongoingNavigations \ {key}

\* The close step, the same after a navigation and on the same-URL path: the delayed
\* removal of the new tab is scheduled and the key is deleted; then the execution
\* settles.
CloseStep(p, how) ==
  /\ tasks' = AddTask(tasks, CloseTimer(procs[p].newTab, procs[p].key, procs[p].target))
  /\ ongoingNavigations' = ClearKey(procs[p].key)
  /\ Settle(p, how, FALSE)

\* Lines 235-251: the lock is set and its 3 s timer started; await getAllSettings().
StartReuse(tabId, url) ==
  /\ isNavigating' = TRUE
  /\ tasks' = AddTask(tasks, FlagTimer)
  /\ procs' = [procs EXCEPT ![FreeSlot] =
                 [IdleProc EXCEPT !.pc = "settings", !.newTab = tabId, !.url = url]]

\* Lines 251-285: the setting is read, the key is checked and taken;
\* await chrome.tabs.query().
AfterSettings(p) ==
  /\ procs[p].pc = "settings"
  /\ \E useNoReload \in BOOLEAN :
       LET subdomain == extractSubdomain(procs[p].url)
           ticketNumber == extractTicketNumber(procs[p].url)
           navigationKey == NavigationKey(subdomain, ticketNumber)
       IN IF subdomain = NoSub \/ ticketNumber = NoNumber
          THEN /\ Settle(p, "unparsable", FALSE)
               /\ UNCHANGED << ongoingNavigations, tasks >>
          ELSE IF navigationKey \in ongoingNavigations
          THEN /\ Settle(p, "debounced", FALSE)
               /\ UNCHANGED << ongoingNavigations, tasks >>
          ELSE /\ ongoingNavigations' = ongoingNavigations \cup {navigationKey}
               /\ tasks' = AddTask(tasks, KeyTimer(navigationKey))
               /\ procs' = [procs EXCEPT ![p].pc = "query", ![p].noReload = useNoReload,
                                         ![p].key = navigationKey, ![p].held = TRUE]
               /\ UNCHANGED << isNavigating, lastExit, rejections >>
  /\ UNCHANGED << browser, pending, tracking, sweepLeft, sweep,  envOps, removeCalls >>

\* allTabs.filter(tab => tab.id !== newTabId && tab.url.includes('/agent/'))
Candidates(subdomain, newTabId) ==
  { t \in Tabs : /\ IsOpen(t)
                 /\ MatchesQuery(tabUrl[t], subdomain)
                 /\ t # newTabId
                 /\ IncludesAgent(tabUrl[t]) }

\* candidates.reduce((a, b) => (a.lastAccessed || 0) > (b.lastAccessed || 0) ? a : b)
\* over the candidates in the order of their ids.
RECURSIVE Reduce(_, _, _)
Reduce(a, rest, lastAccessed) ==
  IF rest = {} THEN a
  ELSE LET b == CHOOSE x \in rest : \A y \in rest : x <= y
       IN Reduce(IF lastAccessed[a] > lastAccessed[b] THEN a ELSE b,
                 rest \ {b}, lastAccessed)

TargetTab(candidates, lastAccessed) ==
  LET first == CHOOSE x \in candidates : \A y \in candidates : x <= y
  IN Reduce(first, candidates \ {first}, lastAccessed)

\* `new Date(targetTab.lastAccessed).toISOString()` of line 313 throws a RangeError
\* when the browser reported no lastAccessed (0 here) for the target.
LogThrows(targetTab, lastAccessed) == lastAccessed[targetTab] = 0

\* A continuation that goes to the close step whatever tabs.query found.
QueryThenClose(p) ==
  /\ procs[p].pc = "query"
  /\ CloseStep(p, "noCandidate")
  /\ UNCHANGED << browser, pending, tracking, removeCalls, sweepLeft, sweep, envOps >>

\* Lines 285-321: the candidates, the target; await chrome.tabs.update(active).
\* The return of the no-candidate path leaves ongoingNavigations as it is.
AfterQuery(p) ==
  /\ procs[p].pc = "query"
  /\ LET candidates == Candidates(extractSubdomain(procs[p].url), procs[p].newTab)
     IN IF candidates = {}
        THEN /\ Settle(p, "noCandidate", FALSE)
             /\ UNCHANGED << browser, pending, tracking, ongoingNavigations, tasks,
                             removeCalls >>
        ELSE \E lastAccessed \in [candidates -> 0..MaxAccessed] :
               LET targetTab == TargetTab(candidates, lastAccessed)
               IN IF LogThrows(targetTab, lastAccessed)
                  THEN Throw(p)
                  ELSE /\ procs' = [procs EXCEPT ![p].pc = "activate",
                                                 ![p].target = targetTab,
                                                 ![p].targetUrl = tabUrl[targetTab],
                                                 ![p].calls = << "activate" >>]
                       /\ UNCHANGED << browser, pending, tracking, ongoingNavigations,
                                       isNavigating, tasks, history >>
  /\ UNCHANGED << sweepLeft, sweep, envOps >>

\* A continuation that goes on to the URL update without the call that focuses the
\* window.
NavigateUnfocused(p) ==
  /\ procs[p].pc = "activate"
  /\ procs' = [procs EXCEPT ![p].pc = "update485", ![p].calls = Append(@, "update")]
  /\ UNCHANGED << browser, pending, tracking, ongoingNavigations, isNavigating, tasks,
                  history, sweepLeft, sweep, envOps >>

\* Lines 321-322: the tab is active; await chrome.windows.update(focused).
AfterActivate(p) ==
  /\ procs[p].pc = "activate"
  /\ IF IsOpen(procs[p].target)
     THEN /\ activeTab' = procs[p].target
          /\ procs' = [procs EXCEPT ![p].pc = "focus",
                                    ![p].calls = Append(@, "focus")]
          /\ UNCHANGED << tabUrl, focusedWin, pending, tracking, ongoingNavigations,
                          isNavigating, tasks, history >>
     ELSE Throw(p)
  /\ UNCHANGED << sweepLeft, sweep,  envOps >>

\* A comparison that never finds the URLs equal.
NeverSameUrl(targetUrl, cleanUrl) == FALSE

\* if (targetTab.url === cleanUrl), on the URL tabs.query reported.
SameUrl(targetUrl, cleanUrl) == targetUrl = cleanUrl

\* Lines 322-356: the window has the focus.  Equal URLs: the close step.  Otherwise
\* await chrome.scripting.executeScript() or, with the setting off,
\* await chrome.tabs.update(url).
AfterFocus(p) ==
  /\ procs[p].pc = "focus"
  /\ LET cleanUrl == CleanUrl(procs[p].key[1], procs[p].key[2])
     IN IF ~WinExists(WinOf(procs[p].target))
        THEN Throw(p)
        ELSE /\ focusedWin' = WinOf(procs[p].target)
             /\ UNCHANGED << tabUrl, activeTab, pending, tracking, removeCalls >>
             /\ IF SameUrl(procs[p].targetUrl, cleanUrl)
                THEN CloseStep(p, "sameUrl")
                ELSE /\ procs' = [procs EXCEPT
                           ![p].pc = IF procs[p].noReload THEN "script" ELSE "update485",
                           ![p].calls = Append(@, IF procs[p].noReload THEN "script"
                                                                     ELSE "update")]
                     /\ UNCHANGED << ongoingNavigations, isNavigating, tasks, lastExit,
                                     rejections >>
  /\ UNCHANGED << sweepLeft, sweep,  envOps >>

\* The tab shows the URL: chrome.tabs.update(url) or an in-page navigation took
\* effect, and the browser reports the committed navigation of the main frame.
TabNavigates(t, url) ==
  /\ tabUrl' = [tabUrl EXCEPT ![t] = url]
  /\ pending' = pending \cup {Event("nav", t, NoTab, url, 0)}
  /\ UNCHANGED << activeTab, focusedWin >>

\* What executeScript can give back for a tab that exists: the injected function
\* reports success only on a page whose pathname includes /agent/tickets/;
\* "undefined" is a result of unexpected shape (results[0]?.result is undefined).
ScriptOutcomes(url) ==
  IF OnTicketPage(url) THEN {"success", "failed", "undefined", "throws"}
  ELSE {"failed", "undefined", "throws"}

\* A continuation that takes every result for a success.
AllDone(outcome) == "done"

\* A continuation that falls back to the URL update whatever the result.
NeverDone(outcome) == "update474"

\* The continuation after a script outcome: "done" (lines 459-463), the fallback of
\* the else branch (line 474) or the fallback of the inner catch (line 480); reading
\* result.logs of an undefined result throws inside the inner try.
AfterScriptPc(outcome) ==
  IF outcome = "success" THEN "done"
  ELSE IF outcome = "failed" THEN "update474"
  ELSE "update480"

\* Lines 356-480: the script has run (or the call rejected).  A script that reports
\* success has navigated the page; lastExit keeps what the script gave back when the
\* execution goes on to the close step without a URL update.
AfterScript(p) ==
  /\ procs[p].pc = "script"
  /\ LET target == procs[p].target
         cleanUrl == CleanUrl(procs[p].key[1], procs[p].key[2])
     IN \E outcome \in (IF IsOpen(target) THEN ScriptOutcomes(tabUrl[target])
                                          ELSE {"throws"}) :
          /\ IF outcome = "success"
             THEN TabNavigates(target, cleanUrl)
             ELSE UNCHANGED << browser, pending >>
          /\ IF AfterScriptPc(outcome) = "done"
             THEN CloseStep(p, outcome)
             ELSE /\ procs' = [procs EXCEPT ![p].pc = AfterScriptPc(outcome),
                                            ![p].calls = Append(@, "update"),
                                            ![p].inPlace = (outcome = "success")]
                  /\ UNCHANGED << ongoingNavigations, isNavigating, tasks, lastExit,
                                  rejections >>
  /\ UNCHANGED << tracking, removeCalls, sweepLeft, sweep, envOps >>

\* Line 474, inside the inner try: a rejection is caught by the inner catch, which
\* calls chrome.tabs.update(url) again (line 480).
AfterUpdate474(p) ==
  /\ procs[p].pc = "update474"
  /\ IF IsOpen(procs[p].target)
     THEN /\ TabNavigates(procs[p].target, CleanUrl(procs[p].key[1], procs[p].key[2]))
          /\ CloseStep(p, "completed")
          /\ UNCHANGED << tracking, removeCalls >>
     ELSE /\ procs' = [procs EXCEPT ![p].pc = "update480",
                                    ![p].calls = Append(@, "update")]
          /\ UNCHANGED << browser, pending, tracking, ongoingNavigations,
                          isNavigating, tasks, history >>
  /\ UNCHANGED << sweepLeft, sweep,  envOps >>

\* Lines 480 and 485: a rejection reaches the outer catch.
AfterUpdate(p) ==
  /\ procs[p].pc \in {"update480", "update485"}
  /\ IF IsOpen(procs[p].target)
     THEN /\ TabNavigates(procs[p].target, CleanUrl(procs[p].key[1], procs[p].key[2]))
          /\ CloseStep(p, "completed")
          /\ UNCHANGED << tracking, removeCalls >>
     ELSE Throw(p)
  /\ UNCHANGED << sweepLeft, sweep,  envOps >>

----------------------------------------------------------------------------
\* Timers and timer callbacks.

\* The 3 s timer of reuseZendeskTab.
FlagTimeout ==
  /\ \E r \in BagToSet(tasks) :
       /\ r.kind = "flag" /\ r.left = 0
       /\ tasks' = DelTask(tasks, r)
  /\ isNavigating' = FALSE
  /\ UNCHANGED << browser, pending, tracking, ongoingNavigations, procs, sweepLeft,
                  sweep,  envOps, history >>

\* A 5 s callback that runs without its delete.
KeyTimerLost ==
  \E r \in BagToSet(tasks) :
    /\ r.kind = "key" /\ r.left = 0
    /\ tasks' = DelTask(tasks, r)
    /\ UNCHANGED << browser, pending, tracking, ongoingNavigations, isNavigating, procs,
                    sweepLeft, sweep, envOps, history >>

\* The 5 s timer of reuseZendeskTab.
KeyTimeout ==
  \E r \in BagToSet(tasks) :
    /\ r.kind = "key" /\ r.left = 0
    /\ tasks' = DelTask(tasks, r)
    /\ ongoingNavigations' = ongoingNavigations \ {r.key}
    /\ UNCHANGED << browser, pending, tracking, isNavigating, procs, sweepLeft, sweep,
                   envOps, history >>

CountRemove(t) == [removeCalls EXCEPT ![t] = Min(@ + 1, MaxRemoveCalls)]

\* The 100 ms callback starts: await tabExists(newTabId).
CloseTimeout ==
  \E r \in BagToSet(tasks) :
    /\ r.kind = "close" /\ r.pc = "timer" /\ r.left = 0
    /\ tasks' = AddTask(DelTask(tasks, r), [r EXCEPT !.pc = "exists"])
    /\ UNCHANGED << browser, pending, tracking, ongoingNavigations, isNavigating,
                    procs, sweepLeft, sweep,  envOps, history >>

\* tabExists answered: await chrome.tabs.remove(newTabId), or clearNavigationTab.
CloseAfterExists ==
  \E r \in BagToSet(tasks) :
    /\ r.kind = "close" /\ r.pc = "exists"
    /\ IF IsOpen(r.tab)
       THEN /\ tasks' = AddTask(DelTask(tasks, r), [r EXCEPT !.pc = "remove"])
            /\ removeCalls' = CountRemove(r.tab)
            /\ UNCHANGED tracking
       ELSE /\ tasks' = DelTask(tasks, r)
            /\ clearNavigationTab(r.tab)
            /\ UNCHANGED removeCalls
    /\ UNCHANGED << browser, pending, ongoingNavigations, isNavigating, procs,
                    sweepLeft, sweep,  envOps, lastExit, rejections >>

\* chrome.tabs.remove answered: clearNavigationTab; a rejection (the tab went away
\* after tabExists) leaves the callback's promise rejected.
CloseAfterRemove ==
  \E r \in BagToSet(tasks) :
    /\ r.kind = "close" /\ r.pc = "remove"
    /\ tasks' = DelTask(tasks, r)
    /\ IF IsOpen(r.tab)
       THEN /\ BrowserCloses(r.tab)
            /\ clearNavigationTab(r.tab)
            /\ UNCHANGED << focusedWin, rejections >>
       ELSE /\ rejections' = Min(rejections + 1, MaxRejections)
            /\ UNCHANGED << browser, pending, tracking >>
    /\ UNCHANGED << ongoingNavigations, isNavigating, procs, sweepLeft, sweep,  envOps,
                    lastExit, removeCalls >>

\* The 0 ms callback of the navigation-target listener starts:
\* await chrome.tabs.update(sourceTabId, { url }).
ForceTimeout ==
  \E r \in BagToSet(tasks) :
    /\ r.kind = "force" /\ r.pc = "timer" /\ r.left = 0
    /\ tasks' = AddTask(DelTask(tasks, r), [r EXCEPT !.pc = "update"])
    /\ UNCHANGED << browser, pending, tracking, ongoingNavigations, isNavigating,
                    procs, sweepLeft, sweep,  envOps, history >>

\* A callback with one try block around both steps: a rejected update ends it.
ForceOneTry ==
  \E r \in BagToSet(tasks) :
    /\ r.kind = "force" /\ r.pc = "update"
    /\ IF IsOpen(r.src)
       THEN /\ tasks' = AddTask(DelTask(tasks, r), [r EXCEPT !.pc = "exists"])
            /\ TabNavigates(r.src, r.url)
       ELSE /\ tasks' = DelTask(tasks, r)
            /\ UNCHANGED << browser, pending >>
    /\ UNCHANGED << tracking, ongoingNavigations, isNavigating, procs, sweepLeft,
                    sweep,  envOps, history >>

\* The update answered (a rejection is caught): await tabExists(details.tabId).
ForceAfterUpdate ==
  \E r \in BagToSet(tasks) :
    /\ r.kind = "force" /\ r.pc = "update"
    /\ tasks' = AddTask(DelTask(tasks, r), [r EXCEPT !.pc = "exists"])
    /\ IF IsOpen(r.src)
       THEN TabNavigates(r.src, r.url)
       ELSE UNCHANGED << browser, pending >>
    /\ UNCHANGED << tracking, ongoingNavigations, isNavigating, procs, sweepLeft,
                    sweep,  envOps, history >>

\* tabExists answered: await chrome.tabs.remove(details.tabId), or done.
ForceAfterExists ==
  \E r \in BagToSet(tasks) :
    /\ r.kind = "force" /\ r.pc = "exists"
    /\ IF IsOpen(r.tab)
       THEN /\ tasks' = AddTask(DelTask(tasks, r), [r EXCEPT !.pc = "remove"])
            /\ removeCalls' = CountRemove(r.tab)
       ELSE /\ tasks' = DelTask(tasks, r)
            /\ UNCHANGED removeCalls
    /\ UNCHANGED << browser, pending, tracking, ongoingNavigations, isNavigating,
                    procs, sweepLeft, sweep,  envOps, lastExit, rejections >>

\* chrome.tabs.remove answered; a rejection is caught.
ForceAfterRemove ==
  \E r \in BagToSet(tasks) :
    /\ r.kind = "force" /\ r.pc = "remove"
    /\ tasks' = DelTask(tasks, r)
    /\ IF IsOpen(r.tab)
       THEN BrowserCloses(r.tab) /\ UNCHANGED focusedWin
       ELSE UNCHANGED << browser, pending >>
    /\ UNCHANGED << tracking, ongoingNavigations, isNavigating, procs, sweepLeft,
                    sweep,  envOps, history >>

----------------------------------------------------------------------------
\* The listeners.

\* processZendeskNavigation up to the first await of reuseZendeskTab.
processZendeskNavigation(tabId, url) ==
  LET navigationKey == NavigationKey(extractSubdomain(url), extractTicketNumber(url))
  IN IF navigationKey \in ongoingNavigations
     THEN UNCHANGED << recentNewTabs, isNavigating, procs, tasks >>
     ELSE /\ recentNewTabs' = RecentAfterLookup(tabId)
          /\ IF isTabRecentlyNew(tabId)
             THEN HasFreeSlot /\ StartReuse(tabId, url)
             ELSE UNCHANGED << isNavigating, procs, tasks >>

\* A listener that takes the events of sub-frames as it takes those of the main frame.
handleAnyFrame(details) ==
  LET subdomain == extractSubdomain(details.url)
      ticketNumber == extractTicketNumber(details.url)
      zendeskUrl == extractZendeskUrlFromTeams(details.url)
      isTicketUrl == TICKET_ROUTE(details.url) \/ HASH_TICKET_ROUTE(details.url)
      skip == UNCHANGED << recentNewTabs, isNavigating, procs, tasks >>
  IN IF isNavigating THEN skip
     ELSE IF /\ isZendeskUrl(details.url)
             /\ subdomain # NoSub /\ ticketNumber # NoNumber
             /\ NavigationKey(subdomain, ticketNumber) \in ongoingNavigations
          THEN skip
     ELSE IF TEAMS_SAFEURL(details.url) /\ TICKET_ROUTE(zendeskUrl)
          THEN processZendeskNavigation(details.tab, zendeskUrl)
     ELSE IF ~isTicketUrl THEN skip
     ELSE processZendeskNavigation(details.tab, details.url)

\* handleNavigation, the listener of webNavigation.onCompleted and
\* webNavigation.onHistoryStateUpdated, up to its first await.
handleNavigation(details) ==
  LET subdomain == extractSubdomain(details.url)
      ticketNumber == extractTicketNumber(details.url)
      zendeskUrl == extractZendeskUrlFromTeams(details.url)
      isTicketUrl == TICKET_ROUTE(details.url) \/ HASH_TICKET_ROUTE(details.url)
      skip == UNCHANGED << recentNewTabs, isNavigating, procs, tasks >>
  IN IF isNavigating THEN skip
     ELSE IF details.frame # 0 THEN skip
     ELSE IF /\ isZendeskUrl(details.url)
             /\ subdomain # NoSub /\ ticketNumber # NoNumber
             /\ NavigationKey(subdomain, ticketNumber) \in ongoingNavigations
          THEN skip
     ELSE IF TEAMS_SAFEURL(details.url) /\ TICKET_ROUTE(zendeskUrl)
          THEN processZendeskNavigation(details.tab, zendeskUrl)
     ELSE IF ~isTicketUrl THEN skip
     ELSE processZendeskNavigation(details.tab, details.url)

\* The browser reports a tab's creation, by tabs.onCreated and, for a tab a link
\* opened, by webNavigation.onCreatedNavigationTarget, before a navigation that the
\* tab completes.
CreationPending(t) == \E c \in pending : c.type \in {"created", "target"} /\ c.tab = t

OnNavigation ==
  \E e \in pending :
    /\ e.type = "nav"
    /\ ~CreationPending(e.tab)
    /\ pending' = pending \ {e}
    /\ handleNavigation(e)
    /\ UNCHANGED << browser, navigationTabs, ongoingNavigations, sweepLeft, sweep,
                   envOps, history >>

\* chrome.tabs.onCreated: if (tab.id) markTabNew(tab.id)
OnCreated ==
  \E e \in pending :
    /\ e.type = "created"
    /\ pending' = pending \ {e}
    /\ recentNewTabs' = markTabNew(recentNewTabs, e.tab)
    /\ UNCHANGED << browser, navigationTabs, ongoingNavigations, isNavigating, procs,
                    tasks, sweepLeft, sweep,  envOps, history >>

\* A removal listener that forgets the timestamp only.
OnRemovedRecentOnly ==
  \E e \in pending :
    /\ e.type = "removed"
    /\ pending' = pending \ {e}
    /\ recentNewTabs' = [recentNewTabs EXCEPT ![e.tab] = NoEntry]
    /\ UNCHANGED << browser, navigationTabs, ongoingNavigations, isNavigating, procs,
                    tasks, sweepLeft, sweep, envOps, history >>

\* chrome.tabs.onRemoved (the second listener; the first only updates the badge)
OnRemoved ==
  \E e \in pending :
    /\ e.type = "removed"
    /\ pending' = pending \ {e}
    /\ navigationTabs' = navigationTabs \ {e.tab}
    /\ recentNewTabs' = [recentNewTabs EXCEPT ![e.tab] = NoEntry]
    /\ UNCHANGED << browser, ongoingNavigations, isNavigating, procs, tasks,
                    sweepLeft, sweep,  envOps, history >>

\* chrome.webNavigation.onCreatedNavigationTarget
OnCreatedNavigationTarget ==
  \E e \in pending :
    /\ e.type = "target"
    /\ pending' = pending \ {e}
    /\ IF /\ isNavigating
          /\ e.src # NoTab /\ e.tab # NoTab
          /\ (TICKET_ROUTE(e.url) \/ HASH_TICKET_ROUTE(e.url))
       THEN /\ tasks' = AddTask(tasks, ForceTimer(e.src, e.tab, e.url))
            /\ navigationTabs' = navigationTabs \cup {e.tab}
       ELSE /\ navigationTabs' = navigationTabs \cup {e.tab}
            /\ UNCHANGED tasks
    /\ UNCHANGED << browser, recentNewTabs, ongoingNavigations, isNavigating, procs,
                    sweepLeft, sweep,  envOps, history >>

----------------------------------------------------------------------------
\* The clean-up interval (setInterval(..., NEW_TAB_WINDOW_MS)).

NoSweep == [active |-> FALSE, visited |-> {}, cur |-> NoTab]

\* "Clean old recent tabs": the entries older than twice the window.
TooOld == { t \in Tabs : /\ recentNewTabs[t] # NoEntry
                         /\ recentNewTabs[t] > 2 * Secs(NEW_TAB_WINDOW_MS) }

\* The loop over navigationTabs goes on with a tab it has not visited, or ends.
SweepNext(navTabs, visited) ==
  IF navTabs \ visited = {}
  THEN sweep' = NoSweep
  ELSE \E t \in navTabs \ visited :
         sweep' = [active |-> TRUE, visited |-> visited, cur |-> t]

\* An interval callback without its first loop: no entry is deleted for its age.
SweepKeepsOld ==
  /\ sweepLeft = 0
  /\ ~sweep.active
  /\ sweepLeft' = Secs(NEW_TAB_WINDOW_MS)
  /\ SweepNext(navigationTabs, {})
  /\ UNCHANGED << browser, pending, tracking, ongoingNavigations, isNavigating, procs,
                  tasks, envOps, history >>

\* The interval fires: the first loop, then the first await chrome.tabs.get.
SweepStart ==
  /\ sweepLeft = 0
  /\ ~sweep.active
  /\ sweepLeft' = Secs(NEW_TAB_WINDOW_MS)
  /\ recentNewTabs' = [t \in Tabs |-> IF t \in TooOld THEN NoEntry ELSE recentNewTabs[t]]
  /\ navigationTabs' = navigationTabs \ TooOld
  /\ SweepNext(navigationTabs', {})
  /\ UNCHANGED << browser, pending, ongoingNavigations, isNavigating, procs, tasks,
                   envOps, history >>

\* chrome.tabs.get answered: a tab that is gone is dropped from both tables.
SweepAfterGet ==
  /\ sweep.active
  /\ IF IsOpen(sweep.cur)
     THEN UNCHANGED tracking
     ELSE clearNavigationTab(sweep.cur)
  /\ SweepNext(navigationTabs', sweep.visited \cup {sweep.cur})
  /\ UNCHANGED << browser, pending, ongoingNavigations, isNavigating, procs, tasks,
                  sweepLeft,  envOps, history >>

----------------------------------------------------------------------------
\* Time.

\* A browser call is answered, and a queued event delivered, within the second.
Quiet ==
  /\ pending = {}
  /\ \A p \in Slots : procs[p].pc = "idle"
  /\ \A r \in BagToSet(tasks) : r.pc = "timer"
  /\ ~sweep.active

\* Something of the script depends on the time: a timer is set, a timestamp is kept,
\* or the clean-up interval has a tab to look up.
TimeMatters ==
  \/ tasks # EmptyBag
  \/ \E t \in Tabs : recentNewTabs[t] # NoEntry
  \/ navigationTabs # {}

\* The clocks after one second; no timer is overdue.
OneSecond ==
  /\ sweepLeft > 0
  /\ \A r \in BagToSet(tasks) : r.left > 0
  /\ sweepLeft' = sweepLeft - 1
  /\ recentNewTabs' = [t \in Tabs |-> IF recentNewTabs[t] = NoEntry THEN NoEntry
                                      ELSE Min(recentNewTabs[t] + 1, AgeCap)]
  /\ tasks' = LET older(r) == IF r.pc = "timer" THEN [r EXCEPT !.left = @ - 1] ELSE r
                  younger(r) == IF r.pc = "timer" THEN [r EXCEPT !.left = @ + 1] ELSE r
              IN [r \in { older(x) : x \in BagToSet(tasks) } |-> tasks[younger(r)]]
  /\ UNCHANGED << browser, pending, navigationTabs, ongoingNavigations, isNavigating,
                  procs, sweep, envOps, history >>

\* One second passes.  No timer is overdue and no browser call is outstanding.
Tick ==
  /\ Quiet
  /\ TimeMatters
  /\ OneSecond

\* One second passes while an execution of reuseZendeskTab waits for the answer to a
\* browser call: the browser gives no bound on the time a call takes.
SlowCall ==
  /\ pending = {}
  /\ \E p \in Slots : procs[p].pc # "idle"
  /\ TimeMatters
  /\ \A r \in BagToSet(tasks) : r.pc = "timer"
  /\ ~sweep.active
  /\ OneSecond

----------------------------------------------------------------------------
\* The browser and its user.  A step of the browser queues its events; the
\* listeners run for them before the browser's next step.

BrowserStep ==
  /\ envOps < MaxEnv
  /\ pending = {}
  /\ envOps' = envOps + 1

\* Tab ids are handed out in increasing order and never again.
HasNextTabId == \E t \in Tabs : tabUrl[t] = NotYet
NextTabId ==
  CHOOSE t \in Tabs : tabUrl[t] = NotYet /\ \A u \in Tabs : u < t => tabUrl[u] # NotYet

\* The events of a tab that loads url: none for an empty tab.
LoadEvents(t, url) ==
  IF url = Blank THEN {} ELSE {Event("nav", t, NoTab, url, 0)}

\* The user opens a tab on one of urls (address bar, bookmark, another program).
UserOpens(urls) ==
  /\ BrowserStep
  /\ HasNextTabId
  /\ \E url \in urls :
       /\ tabUrl' = [tabUrl EXCEPT ![NextTabId] = url]
       /\ pending' = {Event("created", NextTabId, NoTab, Blank, 0)}
                       \cup LoadEvents(NextTabId, url)
  /\ activeTab' = NextTabId
  /\ focusedWin' = WinOf(NextTabId)
  /\ UNCHANGED << tracking, ongoingNavigations, isNavigating, procs, tasks, sweepLeft,
                  sweep, history >>

\* The user opens a tab, empty or on a URL.
UserOpensTab == UserOpens(NavUrls \cup {Blank})

\* A link of tab src opens a tab on url (target=_blank, window.open).
LinkOpensTab ==
  /\ BrowserStep
  /\ HasNextTabId
  /\ \E src \in Tabs, url \in LinkUrls :
       /\ IsOpen(src)
       /\ tabUrl' = [tabUrl EXCEPT ![NextTabId] = url]
       /\ pending' = {Event("created", NextTabId, NoTab, Blank, 0),
                      Event("target", NextTabId, src, url, 0)}
                       \cup LoadEvents(NextTabId, url)
  /\ activeTab' = NextTabId
  /\ focusedWin' = WinOf(NextTabId)
  /\ UNCHANGED << tracking, ongoingNavigations, isNavigating, procs, tasks, sweepLeft,
                  sweep, history >>

\* A navigation of a tab's main frame is committed (a load, or a history update).
TabCommits ==
  /\ BrowserStep
  /\ \E t \in Tabs, url \in NavUrls :
       /\ IsOpen(t)
       /\ tabUrl[t] # url
       /\ TabNavigates(t, url)
  /\ UNCHANGED << tracking, ongoingNavigations, isNavigating, procs, tasks, sweepLeft,
                  sweep, history >>

\* A navigation of a sub-frame of a tab completes.
FrameCommits ==
  /\ BrowserStep
  /\ \E t \in Tabs :
       /\ IsOpen(t)
       /\ pending' = pending \cup {Event("nav", t, NoTab, FrameUrl, 1)}
  /\ UNCHANGED << browser, tracking, ongoingNavigations, isNavigating, procs, tasks,
                  sweepLeft, sweep, history >>

\* The user closes a tab.
UserClosesTab ==
  /\ BrowserStep
  /\ \E t \in Tabs : IsOpen(t) /\ BrowserCloses(t)
  /\ UNCHANGED << focusedWin, tracking, ongoingNavigations, isNavigating, procs, tasks,
                  sweepLeft, sweep, history >>

----------------------------------------------------------------------------
\* The script has just been loaded: its tables are empty and the interval is set.
\* A tab opened before that is open and untracked.
Init ==
  /\ \E urls \in [Tabs -> InitUrls \cup {NotYet}] :
       /\ \A t \in Tabs : t > MaxInitTabs => urls[t] = NotYet
       /\ \A t \in Tabs : urls[t] = NotYet => \A u \in Tabs : u > t => urls[u] = NotYet
       /\ tabUrl = urls
  /\ activeTab = NoTab
  /\ focusedWin = 1
  /\ pending = {}
  /\ recentNewTabs = [t \in Tabs |-> NoEntry]
  /\ navigationTabs = {}
  /\ ongoingNavigations = {}
  /\ isNavigating = FALSE
  /\ procs = [p \in Slots |-> IdleProc]
  /\ tasks = EmptyBag
  /\ sweepLeft = Secs(NEW_TAB_WINDOW_MS)
  /\ sweep = NoSweep
  /\ envOps = 0
  /\ lastExit = NoExit
  /\ removeCalls = [t \in Tabs |-> 0]
  /\ rejections = 0

Resume ==
  \E p \in Slots :
    \/ AfterSettings(p)
    \/ AfterQuery(p)
    \/ AfterActivate(p)
    \/ AfterFocus(p)
    \/ AfterScript(p)
    \/ AfterUpdate474(p)
    \/ AfterUpdate(p)

Next ==
  \/ UserOpensTab
  \/ LinkOpensTab
  \/ TabCommits
  \/ FrameCommits
  \/ UserClosesTab
  \/ OnCreated
  \/ OnCreatedNavigationTarget
  \/ OnNavigation
  \/ OnRemoved
  \/ Resume
  \/ FlagTimeout
  \/ KeyTimeout
  \/ CloseTimeout
  \/ CloseAfterExists
  \/ CloseAfterRemove
  \/ ForceTimeout
  \/ ForceAfterUpdate
  \/ ForceAfterExists
  \/ ForceAfterRemove
  \/ SweepStart
  \/ SweepAfterGet
  \/ Tick

Spec == Init /\ [][Next]_vars

----------------------------------------------------------------------------
\* Scenario A on its own: one agent tab on ticket 80 is open when the script loads;
\* the user opens a tab, on ticket 500 or empty, and an empty one navigates to
\* ticket 500 while its entry is within the new-tab window.  The event loop runs
\* every listener, continuation and timer callback that is ready.

InitA == Init /\ tabUrl[1] = U80

OpenT1 == UserOpensTab /\ envOps = 0 /\ tabUrl'[2] \in {U500, Blank}

CommitT1 ==
  /\ TabCommits
  /\ tabUrl[2] = Blank
  /\ tabUrl'[2] = U500
  /\ recentNewTabs[2] # NoEntry
  /\ recentNewTabs[2] <= Secs(NEW_TAB_WINDOW_MS)

NextA ==
  \/ OpenT1
  \/ CommitT1
  \/ OnCreated
  \/ OnNavigation
  \/ OnRemoved
  \/ Resume
  \/ FlagTimeout
  \/ KeyTimeout
  \/ CloseTimeout
  \/ CloseAfterExists
  \/ CloseAfterRemove
  \/ SweepStart
  \/ Tick

EventLoopFair ==
  /\ WF_vars(OnCreated)
  /\ WF_vars(OnNavigation)
  /\ WF_vars(OnRemoved)
  /\ WF_vars(Resume)
  /\ WF_vars(CloseTimeout)
  /\ WF_vars(CloseAfterExists)
  /\ WF_vars(CloseAfterRemove)

SpecA == InitA /\ [][NextA]_vars /\ EventLoopFair

----------------------------------------------------------------------------
\* Overlapping executions: one agent tab on ticket 80 is open when the script loads;
\* the user opens a tab on ticket 500 and, while an execution of reuseZendeskTab
\* waits, another one.  The calls of the first execution may take seconds to be
\* answered.

InitS == Init /\ tabUrl[1] = U80 /\ tabUrl[2] = NotYet

OpenS ==
  /\ envOps = 0 \/ \E p \in Slots : procs[p].pc # "idle"
  /\ UserOpens({U500})

\* A second passes while the first execution waits, before the second tab is opened.
SlowFirst == envOps = 1 /\ SlowCall

NextS ==
  \/ OpenS
  \/ OnCreated
  \/ OnNavigation
  \/ OnRemoved
  \/ Resume
  \/ FlagTimeout
  \/ KeyTimeout
  \/ CloseTimeout
  \/ CloseAfterExists
  \/ CloseAfterRemove
  \/ SweepStart
  \/ Tick
  \/ SlowFirst

SpecS == InitS /\ [][NextS]_vars

----------------------------------------------------------------------------
\* Calls that are never answered: one agent tab on ticket 80 is open when the script
\* loads and the user opens one tab on ticket 500.  A browser call of reuseZendeskTab
\* may take seconds to be answered, or never be answered: nothing makes an execution
\* go on.  Listeners, timers and timer callbacks run when they are ready, and time
\* goes on.

OpenL == envOps = 0 /\ UserOpens({U500})

NextL ==
  \/ OpenL
  \/ OnCreated
  \/ OnNavigation
  \/ OnRemoved
  \/ Resume
  \/ FlagTimeout
  \/ KeyTimeout
  \/ CloseTimeout
  \/ CloseAfterExists
  \/ CloseAfterRemove
  \/ SweepStart
  \/ Tick
  \/ SlowCall

TimersFair ==
  /\ WF_vars(OnCreated)
  /\ WF_vars(OnNavigation)
  /\ WF_vars(OnRemoved)
  /\ WF_vars(FlagTimeout)
  /\ WF_vars(KeyTimeout)
  /\ WF_vars(CloseTimeout)
  /\ WF_vars(CloseAfterExists)
  /\ WF_vars(CloseAfterRemove)
  /\ WF_vars(SweepStart)
  /\ WF_vars(Tick)
  /\ WF_vars(SlowCall)

SpecL == InitS /\ [][NextL]_vars /\ TimersFair

----------------------------------------------------------------------------
\* Two keys: one agent tab of acme on ticket 80 is open when the script loads; the user
\* opens a tab on ticket 500 of acme and then a tab on ticket 80 of beta.

InitK == Init /\ tabUrl[1] = U80 /\ tabUrl[2] = NotYet

OpenK == UserOpens(IF envOps = 0 THEN {U500} ELSE {UBeta80})

NextK ==
  \/ OpenK
  \/ OnCreated
  \/ OnNavigation
  \/ OnRemoved
  \/ Resume
  \/ FlagTimeout
  \/ KeyTimeout
  \/ CloseTimeout
  \/ CloseAfterExists
  \/ CloseAfterRemove
  \/ SweepStart
  \/ Tick

SpecK == InitK /\ [][NextK]_vars

----------------------------------------------------------------------------
\* A recent target: no tab is open when the script loads; the user opens a tab on
\* the agent's chat page and then a tab on ticket 500.  The event loop runs every listener,
\* continuation and timer callback that is ready, and time goes on.

InitR == Init /\ \A t \in Tabs : tabUrl[t] = NotYet

\* The URL the user opens the tab with id t on.
OpenedOn(t) == IF t = 1 THEN UChat ELSE U500

OpenR == UserOpens({OpenedOn(envOps + 1)})

NextR ==
  \/ OpenR
  \/ OnCreated
  \/ OnNavigation
  \/ OnRemoved
  \/ Resume
  \/ FlagTimeout
  \/ KeyTimeout
  \/ CloseTimeout
  \/ CloseAfterExists
  \/ CloseAfterRemove
  \/ SweepStart
  \/ Tick

LoopFair ==
  /\ WF_vars(OnCreated)
  /\ WF_vars(OnNavigation)
  /\ WF_vars(OnRemoved)
  /\ WF_vars(Resume)
  /\ WF_vars(FlagTimeout)
  /\ WF_vars(KeyTimeout)
  /\ WF_vars(CloseTimeout)
  /\ WF_vars(CloseAfterExists)
  /\ WF_vars(CloseAfterRemove)
  /\ WF_vars(SweepStart)
  /\ WF_vars(Tick)

SpecR == InitR /\ [][NextR]_vars /\ LoopFair

----------------------------------------------------------------------------
\* URL shapes: one agent tab on ticket 80 is open when the script loads; the user opens
\* one tab on a URL of one of the shapes below.

UrlShapes == {U500, U500Hash, UView500, U500abc, USuffix500, UInPath500, Teams500}

InitU == Init /\ tabUrl[1] = U80 /\ tabUrl[2] = NotYet

OpenU == envOps = 0 /\ UserOpens(UrlShapes)

NextU ==
  \/ OpenU
  \/ OnCreated
  \/ OnNavigation
  \/ OnRemoved
  \/ Resume
  \/ FlagTimeout
  \/ KeyTimeout
  \/ CloseTimeout
  \/ CloseAfterExists
  \/ CloseAfterRemove
  \/ SweepStart
  \/ Tick

SpecU == InitU /\ [][NextU]_vars

----------------------------------------------------------------------------
\* A link during a hand-off: one agent tab on ticket 80 is open when the script
\* loads; the user opens a tab on ticket 500, and then a link of an open tab opens a
\* tab on a ticket URL.  The event loop runs every listener, continuation and timer
\* callback that is ready, the clean-up interval fires, and time goes on.

OpenF == envOps = 0 /\ UserOpens({U500})

LinkF == envOps = 1 /\ LinkOpensTab

NextF ==
  \/ OpenF
  \/ LinkF
  \/ OnCreated
  \/ OnCreatedNavigationTarget
  \/ OnNavigation
  \/ OnRemoved
  \/ Resume
  \/ FlagTimeout
  \/ KeyTimeout
  \/ CloseTimeout
  \/ CloseAfterExists
  \/ CloseAfterRemove
  \/ ForceTimeout
  \/ ForceAfterUpdate
  \/ ForceAfterExists
  \/ ForceAfterRemove
  \/ SweepStart
  \/ SweepAfterGet
  \/ Tick

SweeperFair ==
  /\ WF_vars(OnCreated)
  /\ WF_vars(OnCreatedNavigationTarget)
  /\ WF_vars(OnNavigation)
  /\ WF_vars(OnRemoved)
  /\ WF_vars(Resume)
  /\ WF_vars(FlagTimeout)
  /\ WF_vars(KeyTimeout)
  /\ WF_vars(CloseTimeout)
  /\ WF_vars(CloseAfterExists)
  /\ WF_vars(CloseAfterRemove)
  /\ WF_vars(ForceTimeout)
  /\ WF_vars(ForceAfterUpdate)
  /\ WF_vars(ForceAfterExists)
  /\ WF_vars(ForceAfterRemove)
  /\ WF_vars(SweepStart)
  /\ WF_vars(SweepAfterGet)
  /\ WF_vars(Tick)

SpecF == InitS /\ [][NextF]_vars /\ SweeperFair

----------------------------------------------------------------------------
\* Properties.

\* The keys some execution or delayed close carries.
KeysInUse ==
  ({ procs[p].key : p \in Slots } \cup { r.key : r \in BagToSet(tasks) }) \ {NoKey}

\* The executions that took the key and have not settled.
Holders(key) == { p \in Slots : procs[p].held /\ procs[p].key = key }

\* The delayed closes, pending or running, of the executions that took the key.
ClosesOf(key) ==
  LET closes == { r \in BagToSet(tasks) : r.kind = "close" /\ r.key = key }
  IN BagCardinality([r \in closes |-> tasks[r]])

\* Slot p settles in this step.
Settles(p) == procs[p].pc # "idle" /\ procs'[p].pc = "idle"

\* C1: for every key, at most one execution of reuseZendeskTab is between taking the
\* key and the end of its last step, the delayed close of the origin tab.
OneExecutionPerKey ==
  \A key \in KeysInUse : Cardinality(Holders(key)) + ClosesOf(key) <= 1

\* C2 (Scenario A): once the new tab 2 shows ticket 500 while tab 1 shows ticket 80,
\* eventually tab 1 shows the clean URL of ticket 500, is the active tab of the
\* focused window, and tab 2 is removed.
ScenarioADone ==
  /\ tabUrl[1] = CleanUrl("acme", 500)
  /\ activeTab = 1
  /\ focusedWin = WinOf(1)
  /\ tabUrl[2] = Gone

SameUrlShortcut ==
  [][\A p \in Slots :
       ( /\ procs[p].pc = "focus"
         /\ procs[p].targetUrl = CleanUrl(procs[p].key[1], procs[p].key[2])
         /\ WinExists(WinOf(procs[p].target))
         /\ procs'[p] # procs[p] )
       => /\ procs[p].calls = << "activate", "focus" >>
          /\ procs'[p].pc = "idle"
          /\ focusedWin' = WinOf(procs[p].target)
          /\ tabUrl' = tabUrl
          /\ CopiesIn(CloseTimer(procs[p].newTab, procs[p].key, procs[p].target), tasks')
               = CopiesIn(CloseTimer(procs[p].newTab, procs[p].key, procs[p].target),
                          tasks) + 1
    ]_vars

\* The shortcut was taken and the origin tab was removed by the one remove call.
SameUrlShortcutTaken ==
  /\ lastExit = "sameUrl"
  /\ \E t \in Tabs : tabUrl[t] = Gone /\ removeCalls[t] = 1
  /\ tasks = EmptyBag \/ \A r \in BagToSet(tasks) : r.kind # "close"

\* C4 (Scenario C): of the hand-offs started for one key before the first has
\* finished its delayed close, one runs to completion (one delayed close per key),
\* and no tab receives more than one remove call.
ScenarioCOnce ==
  /\ \A key \in KeysInUse : ClosesOf(key) <= 1
  /\ \A t \in Tabs : removeCalls[t] <= 1

\* C5 (Scenario D): the listener's run for a navigation event with a Restricted URL
\* starts no execution and leaves the tracking tables, the keys and the flag alone.
RestrictedNeverStarts ==
  [][\A e \in pending :
       ( /\ e.type = "nav"
         /\ isRestrictedZendeskUrl(e.url)
         /\ pending' = pending \ {e} )
       => UNCHANGED << recentNewTabs, navigationTabs, ongoingNavigations, isNavigating,
                       procs >>
    ]_vars

\* C6: no execution has issued a navigation call on a target whose URL was Restricted
\* when it was selected.
TargetNeverRestricted ==
  \A p \in Slots :
    (\E i \in 1..Len(procs[p].calls) : procs[p].calls[i] \in {"script", "update"})
      => ~isRestrictedZendeskUrl(procs[p].targetUrl)

\* C7: an execution that took its key and settles because a browser call threw has
\* removed the key from ongoingNavigations when it settles.
ThrowReleasesKey ==
  [][\A p \in Slots :
       (Settles(p) /\ procs[p].held /\ lastExit' = "threw")
         => procs[p].key \notin ongoingNavigations'
    ]_vars

\* C8: no promise of the script rejects: every failure of a browser call is caught.
NoEscapingException == rejections = 0

\* C9: when an execution settles, on whatever path, isNavigating is false.
FlagClearedAtSettle ==
  [][\A p \in Slots : Settles(p) => ~isNavigating']_vars

\* An execution has settled by the catch block, and the flag is false although the
\* 3 s timer it set has not run yet.
FlagClearedBeforeTimer ==
  /\ lastExit = "threw"
  /\ ~isNavigating
  /\ HasTask(FlagTimer)
  /\ \A p \in Slots : procs[p].pc = "idle"

\* C10: an execution that finds no candidate has removed its key from
\* ongoingNavigations when it returns.
NoCandidateReleasesKey ==
  [][\A p \in Slots :
       (Settles(p) /\ procs[p].pc = "query" /\ lastExit' = "noCandidate")
         => procs[p].key \notin ongoingNavigations'
    ]_vars

\* The URL is a ticket or view route, as handleNavigation tests it (isTicketUrl).
IsResource(url) == TICKET_ROUTE(url) \/ HASH_TICKET_ROUTE(url)

\* The listener's run for the queued navigation event e gets as far as the call of
\* isTabRecentlyNew: the flag is off, the event is of the main frame, its URL is a
\* ticket URL and its key is not in ongoingNavigations; and the run happens now.
LookupRuns(e) ==
  /\ e.type = "nav"
  /\ e.frame = 0
  /\ ~isNavigating
  /\ e.url.kind = "zd"
  /\ IsResource(e.url)
  /\ NavigationKey(extractSubdomain(e.url), extractTicketNumber(e.url))
       \notin ongoingNavigations
  /\ pending' = pending \ {e}

\* An execution starts for tab t in this step.
StartsFor(t) ==
  \E p \in Slots : procs[p].pc = "idle" /\ procs'[p].pc = "settings" /\ procs'[p].newTab = t

\* C11: isTabRecentlyNew is true of every tab in navigationTabs, whatever the age of
\* its timestamp (and so its navigation to a ticket URL is handed to reuseZendeskTab).
NavigationTargetIsRecent == \A t \in navigationTabs : isTabRecentlyNew(t)

\* C12: for a tab that is in recentNewTabs and not in navigationTabs, the lookup of a
\* navigation to a ticket URL finds the tab recent exactly when its timestamp is at
\* most NEW_TAB_WINDOW_MS old (an execution starts for it, the entry stays);
\* otherwise the entry is deleted, nothing starts, and the tab is not recent after.
UserCreatedWindow ==
  [][\A e \in pending :
       ( /\ LookupRuns(e)
         /\ e.tab \notin navigationTabs
         /\ recentNewTabs[e.tab] # NoEntry )
       => IF recentNewTabs[e.tab] <= Secs(NEW_TAB_WINDOW_MS)
          THEN StartsFor(e.tab) /\ recentNewTabs' = recentNewTabs
          ELSE /\ recentNewTabs'[e.tab] = NoEntry
               /\ procs' = procs
               /\ ~(isTabRecentlyNew(e.tab))'
    ]_vars

\* Tab 1, opened empty by the user, went to ticket 500 between 6 and 9 seconds after
\* its creation: its entry was deleted by the lookup (the clean-up interval deletes
\* after more than 10 seconds) and no execution started.
ExpiredEntryEvicted ==
  /\ tabUrl = [t \in Tabs |-> IF t = 1 THEN U500 ELSE NotYet]
  /\ envOps = 2
  /\ pending = {}
  /\ recentNewTabs[1] = NoEntry
  /\ sweepLeft \in 1..(Secs(NEW_TAB_WINDOW_MS) - 1)
  /\ lastExit = NoExit
  /\ \A p \in Slots : procs[p].pc = "idle"
  /\ tasks = EmptyBag

\* C13: the run of the navigation-target listener for a ticket URL while isNavigating
\* is true does not leave the new tab in navigationTabs.
InterceptedTargetUntracked ==
  [][\A e \in pending :
       ( /\ e.type = "target"
         /\ isNavigating
         /\ e.src # NoTab /\ e.tab # NoTab
         /\ IsResource(e.url)
         /\ pending' = pending \ {e} )
       => e.tab \notin navigationTabs'
    ]_vars

\* C14: the listener's run for a navigation to a ticket URL on a tab whose timestamp is
\* missing or older than the window starts no execution: no slot, timer, flag or key
\* changes, and no remove call is issued.
NotRecentStartsNothing ==
  [][\A e \in pending :
       ( /\ LookupRuns(e)
         /\ \/ recentNewTabs[e.tab] = NoEntry
            \/ recentNewTabs[e.tab] > Secs(NEW_TAB_WINDOW_MS) )
       => UNCHANGED << procs, tasks, isNavigating, ongoingNavigations, removeCalls >>
    ]_vars

\* Tab 1 was open before the script was loaded and is in neither table; it went to
\* /agent/tickets/500/print, which TICKET_ROUTE matches, the event was handled, and
\* nothing was started.
UntrackedTabIgnored ==
  /\ tabUrl[1] = U500Print
  /\ envOps = 1
  /\ pending = {}
  /\ recentNewTabs[1] = NoEntry
  /\ 1 \notin navigationTabs
  /\ lastExit = NoExit
  /\ \A p \in Slots : procs[p].pc = "idle"
  /\ tasks = EmptyBag
  /\ ~isNavigating

\* The key reuseZendeskTab derives from the URL it was called with.
KeyOf(url) == NavigationKey(extractSubdomain(url), extractTicketNumber(url))

\* C15: the continuation of an execution that finds its key in ongoingNavigations is a
\* no-op: it settles, and it leaves the tabs, the focus, the remove calls, the timers,
\* ongoingNavigations and isNavigating as they were.
DebounceIsNoOp ==
  [][\A p \in Slots :
       ( /\ procs[p].pc = "settings"
         /\ KeyOf(procs[p].url) \in ongoingNavigations
         /\ procs'[p] # procs[p] )
       => /\ procs'[p].pc = "idle"
          /\ UNCHANGED << tabUrl, activeTab, focusedWin, removeCalls, tasks,
                          ongoingNavigations, isNavigating >>
    ]_vars

\* C16: every key in ongoingNavigations is removed from it at some later time, and
\* whenever isNavigating is true it is false at some later time, although no browser
\* call of reuseZendeskTab need ever be answered.
FailsafeLiveness ==
  /\ \A key \in { KeyOf(U500), KeyOf(U80), KeyOf(UBeta80) } :
       (key \in ongoingNavigations) ~> (key \notin ongoingNavigations)
  /\ isNavigating ~> ~isNavigating

\* An execution still waits for chrome.scripting.executeScript while both of its
\* timers have run: its key is gone and the flag is false.
ReleasedWhileWaiting ==
  \E p \in Slots :
    /\ procs[p].pc = "script"
    /\ procs[p].held
    /\ procs[p].key \notin ongoingNavigations
    /\ ~isNavigating
    /\ \A r \in BagToSet(tasks) : r.kind \notin {"flag", "key"}

\* C17: while an execution of reuseZendeskTab is between its start and its settling,
\* isNavigating is true.
FlagWhileRunning == (\E p \in Slots : procs[p].pc # "idle") => isNavigating

\* C18: a navigation to a ticket URL on a recent tab, handled while executions are in
\* progress and all of them are for other keys, starts an execution for that tab.
OtherKeyStarts ==
  [][\A e \in pending :
       ( /\ e.type = "nav"
         /\ e.frame = 0
         /\ e.url.kind = "zd"
         /\ IsResource(e.url)
         /\ isTabRecentlyNew(e.tab)
         /\ KeyOf(e.url) \notin ongoingNavigations
         /\ \E p \in Slots : procs[p].pc # "idle"
         /\ \A p \in Slots : procs[p].pc # "idle" => KeyOf(procs[p].url) # KeyOf(e.url)
         /\ pending' = pending \ {e} )
       => StartsFor(e.tab)
    ]_vars

\* C19: when the delayed close of a successful execution has run to its end (none of
\* its calls rejected), the origin tab and the target tab are in neither recentNewTabs
\* nor navigationTabs.
BothTabsForgotten ==
  [][\A r \in BagToSet(tasks) :
       ( /\ r.kind = "close"
         /\ r.pc \in {"exists", "remove"}
         /\ tasks' = DelTask(tasks, r)
         /\ rejections' = rejections )
       => \A t \in {r.tab, r.src} :
            recentNewTabs'[t] = NoEntry /\ t \notin navigationTabs'
    ]_vars

\* C20: the reduce picks a candidate whose lastAccessed is the greatest, and an
\* execution that finds candidates goes on with one of them as its target: an open
\* agent tab of the subdomain that is not the tab it was called for.
MostRecentCandidate ==
  \A candidates \in (SUBSET Tabs) \ {{}} :
    \A lastAccessed \in [candidates -> 0..MaxAccessed] :
      /\ TargetTab(candidates, lastAccessed) \in candidates
      /\ \A c \in candidates :
           lastAccessed[TargetTab(candidates, lastAccessed)] >= lastAccessed[c]

OneTargetChosen ==
  /\ []MostRecentCandidate
  /\ [][\A p \in Slots :
          ( /\ procs[p].pc = "query"
            /\ Candidates(extractSubdomain(procs[p].url), procs[p].newTab) # {}
            /\ procs'[p] # procs[p] )
          => /\ procs'[p].pc = "activate"
             /\ procs'[p].target
                  \in Candidates(extractSubdomain(procs[p].url), procs[p].newTab)
             /\ procs'[p].target # procs[p].newTab
             /\ IncludesAgent(tabUrl[procs'[p].target])
       ]_vars

\* C21: no tab id is at the same time in recentNewTabs and in navigationTabs.
OneOriginPerTab ==
  \A t \in Tabs : ~(recentNewTabs[t] # NoEntry /\ t \in navigationTabs)

\* An execution of reuseZendeskTab starts only with the tab's own URL, the one the
\* user opened the tab on.
NoSelfTriggeredStart ==
  [][\A p \in Slots :
       (procs[p].pc = "idle" /\ procs'[p].pc = "settings")
         => procs'[p].url = OpenedOn(procs'[p].newTab)
    ]_vars

\* C22: an execution of reuseZendeskTab starts only for a navigation the user made,
\* never for a navigation event that an execution's own update of its target caused;
\* and from some time on no execution is running.
LoopFreedom ==
  /\ NoSelfTriggeredStart
  /\ <>[](\A p \in Slots : procs[p].pc = "idle")

\* The listener handles the queued navigation event e of a main frame in this step.
Handles(e) == e.type = "nav" /\ e.frame = 0 /\ pending' = pending \ {e}

\* The listener's run started nothing: no execution, timer, flag, key or tracking
\* entry changed.
NothingStarted ==
  UNCHANGED << procs, tasks, isNavigating, ongoingNavigations, recentNewTabs >>

\* The digits at the id position are followed by characters that are not digits.
IdNotNumeric(url) == url.kind = "zd" /\ url.id > 0 /\ url.tail = "abc"

\* C23: a URL whose id segment is digits followed by other characters
\* (/agent/tickets/500abc) gives no ticket number and no key, and the listener's run
\* for a navigation to it starts no execution.
NumericIdOnly ==
  [][\A e \in pending :
       (Handles(e) /\ IdNotNumeric(e.url))
         => /\ extractTicketNumber(e.url) = NoNumber
            /\ ~IsResource(e.url)
            /\ NothingStarted
    ]_vars

\* The host of the URL ends with .zendesk.com: nothing follows the domain, and what
\* stands before it is a subdomain, not a host and the start of a path.
HostInDomain(url) == url.kind = "zd" /\ url.suffix = "" /\ url.sub # PathSub

\* C24: a URL that is not a safelink and whose host does not end with .zendesk.com
\* (acme.zendesk.com.other.tld, or .zendesk.com only in the path) is not a ticket URL
\* and gives no ticket number, and the listener's run for a navigation to it starts no
\* execution.
HostSuffixRequired ==
  [][\A e \in pending :
       (Handles(e) /\ e.url.kind = "zd" /\ ~HostInDomain(e.url))
         => /\ extractTicketNumber(e.url) = NoNumber
            /\ ~IsResource(e.url)
            /\ NothingStarted
    ]_vars

\* The URL with the route written the other way: /agent/#/tickets/5 for
\* /agent/tickets/5 and back.
OtherStyle(url) == [url EXCEPT !.hash = ~url.hash]

\* C25: for every ticket URL, in path or hash style, the clean URL built from its
\* subdomain and ticket number is a ticket URL with the same subdomain and number, and
\* the URL of the other style has the same key; an execution that took a key took the
\* key of its URL, which is the key of its clean URL.
NormalizationIdempotent ==
  /\ \A url \in UrlShapes \cup { tabUrl[t] : t \in Tabs } :
       IsResource(url)
         => /\ KeyOf(url) # NoKey
            /\ IsResource(CleanUrl(KeyOf(url)[1], KeyOf(url)[2]))
            /\ KeyOf(CleanUrl(KeyOf(url)[1], KeyOf(url)[2])) = KeyOf(url)
            /\ IsResource(OtherStyle(url))
            /\ KeyOf(OtherStyle(url)) = KeyOf(url)
  /\ \A p \in Slots :
       procs[p].held
         => /\ procs[p].key = KeyOf(procs[p].url)
            /\ procs[p].key = KeyOf(CleanUrl(procs[p].key[1], procs[p].key[2]))

\* The execution for the tab opened on /agent/#/tickets/500 has taken the key of
\* ticket 500 and selected the tab on ticket 80 to show /agent/tickets/500.
HashStyleKeyTaken ==
  \E p \in Slots :
    /\ procs[p].url = U500Hash
    /\ procs[p].pc = "activate"
    /\ procs[p].key = NavigationKey("acme", 500)
    /\ procs[p].key \in ongoingNavigations
    /\ procs[p].target = 1

\* C26: an execution that has issued a navigation call on its target (the script
\* injection or a URL update) issued the two focus calls, tab made active and window
\* focused, before it.
FocusBeforeNavigation ==
  \A p \in Slots :
    \A i \in 1..Len(procs[p].calls) :
      procs[p].calls[i] \in {"script", "update"}
        => /\ \E j \in 1..(i - 1) : procs[p].calls[j] = "activate"
           /\ \E j \in 1..(i - 1) : procs[p].calls[j] = "focus"

\* An execution waits for the URL update it fell back to after the injected script:
\* both focus calls came first.
FocusedThenNavigated ==
  \E p \in Slots :
    /\ procs[p].pc = "update480"
    /\ procs[p].calls = << "activate", "focus", "script", "update" >>
    /\ activeTab = procs[p].target
    /\ focusedWin = WinOf(procs[p].target)

\* The execution in slot p goes on in this step.
Resumes(p) == procs'[p] # procs[p]

\* The injected script of the execution in slot p reports success in this step.
SuccessReported(p) ==
  /\ procs[p].pc = "script"
  /\ \/ procs'[p].pc = "idle" /\ lastExit' = "success"
     \/ procs'[p].inPlace

\* The execution in slot p issues a URL update on its target in this step.
IssuesUpdate(p) ==
  /\ procs'[p].calls = Append(procs[p].calls, "update")
  /\ procs'[p].pc \in {"update474", "update480", "update485"}
  /\ procs'[p].target = procs[p].target
  /\ procs'[p].key = procs[p].key

\* C27: an execution whose target's URL differs from the clean URL issues a URL update
\* on the target when the no-reload setting is off, and when the injected script did
\* not report success: it reported a failure, gave nothing back, or the call threw.
FallbackGuarantee ==
  [][\A p \in Slots :
       Resumes(p)
         => /\ ( /\ procs[p].pc = "focus"
                 /\ WinExists(WinOf(procs[p].target))
                 /\ procs[p].targetUrl # CleanUrl(procs[p].key[1], procs[p].key[2])
                 /\ ~procs[p].noReload )
               => IssuesUpdate(p) /\ procs'[p].pc = "update485"
            /\ (procs[p].pc = "script" /\ ~SuccessReported(p))
               => IssuesUpdate(p) /\ procs'[p].pc \in {"update474", "update480"}
    ]_vars

\* The script reported a failure on a target that still shows another URL, and the
\* execution waits for the URL update of line 474.
FallbackIssued ==
  \E p \in Slots :
    /\ procs[p].pc = "update474"
    /\ procs[p].noReload
    /\ procs[p].calls = << "activate", "focus", "script", "update" >>
    /\ IsOpen(procs[p].target)
    /\ tabUrl[procs[p].target] # CleanUrl(procs[p].key[1], procs[p].key[2])

\* C28: when the injected script reports success, the execution issues no URL update:
\* it goes to the close step (delayed close scheduled, key deleted) and settles, and
\* the target shows the clean URL by the script's navigation alone.
ShortCircuit ==
  /\ [](\A p \in Slots : ~procs[p].inPlace)
  /\ [][\A p \in Slots :
          (Resumes(p) /\ SuccessReported(p))
            => /\ procs'[p] = IdleProc
               /\ procs[p].calls = << "activate", "focus", "script" >>
               /\ tabUrl' = [tabUrl EXCEPT ![procs[p].target] =
                               CleanUrl(procs[p].key[1], procs[p].key[2])]
               /\ procs[p].key \notin ongoingNavigations'
               /\ CopiesIn(CloseTimer(procs[p].newTab, procs[p].key, procs[p].target),
                           tasks')
                    = CopiesIn(CloseTimer(procs[p].newTab, procs[p].key,
                                          procs[p].target), tasks) + 1
       ]_vars

\* The script navigated tab 1 from ticket 80 to ticket 500 in place, the execution
\* settled without a URL update, and the origin tab 2 was removed by one remove call.
InPlaceDone ==
  /\ lastExit = "success"
  /\ tabUrl[1] = U500
  /\ tabUrl[2] = Gone
  /\ removeCalls[2] = 1
  /\ \A p \in Slots : procs[p].pc = "idle"
  /\ \A r \in BagToSet(tasks) : r.kind # "close"

\* The URL updates the execution in slot p has issued on its target.
UpdatesIssued(p) ==
  Cardinality({ i \in 1..Len(procs[p].calls) : procs[p].calls[i] = "update" })

\* C29: an execution issues the URL update on its target at most once, also when the
\* update call rejects.
NoRetry == \A p \in Slots : UpdatesIssued(p) <= 1

\* C30: the remove call of a delayed close reaches the browser only for a tab that is
\* open then, also when the tab was closed after tabExists answered.
RemoveOnlyExisting ==
  [][\A r \in BagToSet(tasks) :
       (r.kind = "close" /\ r.pc = "remove" /\ tasks' = DelTask(tasks, r))
         => IsOpen(r.tab)
    ]_vars

\* C31: an execution that finds no candidate settles without a call on any tab or
\* window: no tab's URL, the active tab, the focused window, the remove calls, the
\* timers and both tracking tables stay as they were, and the tab it was called for
\* is left open.
NoCandidateNoEffect ==
  [][\A p \in Slots :
       ( /\ procs[p].pc = "query"
         /\ Candidates(extractSubdomain(procs[p].url), procs[p].newTab) = {}
         /\ Resumes(p) )
       => /\ procs'[p] = IdleProc
          /\ procs[p].calls = << >>
          /\ lastExit' = "noCandidate"
          /\ UNCHANGED << tabUrl, activeTab, focusedWin, removeCalls, tasks,
                          recentNewTabs, navigationTabs >>
    ]_vars

\* The execution for tab 2, opened on a ticket URL of a subdomain no other tab shows,
\* found no candidate and settled: tab 2 is open and tracked, tab 1 is as it was, and
\* no remove call was issued.
NoCandidateSettled ==
  /\ lastExit = "noCandidate"
  /\ tabUrl[1] = U80
  /\ tabUrl[2] = UInPath500
  /\ recentNewTabs[2] # NoEntry
  /\ \A t \in Tabs : removeCalls[t] = 0
  /\ \A p \in Slots : procs[p].pc = "idle"
  /\ \A r \in BagToSet(tasks) : r.kind # "close"

\* C32: the listener's run for a navigation event of a sub-frame (frameId other than
\* 0) starts no execution and leaves recentNewTabs, navigationTabs,
\* ongoingNavigations, isNavigating and the timers as they were.
SubFrameIgnored ==
  [][\A e \in pending :
       (e.type = "nav" /\ e.frame # 0 /\ pending' = pending \ {e})
         => UNCHANGED << procs, tasks, recentNewTabs, navigationTabs,
                         ongoingNavigations, isNavigating >>
    ]_vars

\* The user opened tab 1 empty; a sub-frame of it completed a navigation to a ticket
\* URL while the tab was recent, the event was handled, and nothing was started.
SubFrameEventHandled ==
  /\ tabUrl = [t \in Tabs |-> IF t = 1 THEN Blank ELSE NotYet]
  /\ envOps = 2
  /\ pending = {}
  /\ recentNewTabs[1] # NoEntry
  /\ recentNewTabs[1] <= Secs(NEW_TAB_WINDOW_MS)
  /\ lastExit = NoExit
  /\ ~isNavigating
  /\ ongoingNavigations = {}
  /\ tasks = EmptyBag
  /\ \A p \in Slots : procs[p].pc = "idle"

\* C33: when the tabs.onRemoved listener has run for a tab id, the id is in neither
\* recentNewTabs nor navigationTabs, whatever it was tracked as and whatever else is
\* going on.
RemovedTabForgotten ==
  [][\A e \in pending :
       (e.type = "removed" /\ pending' = pending \ {e})
         => recentNewTabs'[e.tab] = NoEntry /\ e.tab \notin navigationTabs'
    ]_vars

\* Tab 2 was opened while tab 1 was open and was registered by the listeners; the user
\* closed tab 2, the removal was handled, and tab 2 is in neither table.  No execution
\* ran and no remove call was issued.
ClosedLinkTabForgotten ==
  /\ tabUrl[2] = Gone
  /\ IsOpen(1)
  /\ envOps = 2
  /\ pending = {}
  /\ recentNewTabs[2] = NoEntry
  /\ 2 \notin navigationTabs
  /\ lastExit = NoExit
  /\ \A t \in Tabs : removeCalls[t] = 0
  /\ sweepLeft = Secs(NEW_TAB_WINDOW_MS)
  /\ ~sweep.active

\* Tab t is closed and still has an entry in one of the tracking tables.
StaleEntry(t) ==
  tabUrl[t] = Gone /\ (recentNewTabs[t] # NoEntry \/ t \in navigationTabs)

\* C34: every entry that recentNewTabs or navigationTabs holds for a tab that is
\* closed is removed at some later time.
BoundedTracking == \A t \in Tabs : StaleEntry(t) ~> ~StaleEntry(t)

\* Tab 3, opened by a link during a hand-off and removed by the navigation-target
\* listener's callback, was marked new after its removal had been handled; nothing is
\* left to run for it, and its entry has reached the age at which the interval
\* deletes it.
StaleEntryAged ==
  /\ tabUrl[3] = Gone
  /\ recentNewTabs[3] > 2 * Secs(NEW_TAB_WINDOW_MS)
  /\ pending = {}
  /\ tasks = EmptyBag
  /\ \A p \in Slots : procs[p].pc = "idle"

\* The callback of the navigation-target listener is scheduled or running for tab t.
Forcing(t) == \E r \in BagToSet(tasks) : r.kind = "force" /\ r.tab = t

\* The listener handles a navigation-target event for a ticket URL while
\* isNavigating is set: the callback is scheduled for the event's source tab, new
\* tab and URL.
InterceptSchedules ==
  \A e \in pending :
    ( /\ e.type = "target"
      /\ e \notin pending'
      /\ isNavigating
      /\ IsResource(e.url) )
    => CopiesIn(ForceTimer(e.src, e.tab, e.url), tasks')
         = CopiesIn(ForceTimer(e.src, e.tab, e.url), tasks) + 1

\* The callback's update answers: the source tab, when open, shows the URL, the new
\* tab keeps its URL, and the callback goes on to tabExists whatever the answer.
UpdateOnSource ==
  \A r \in BagToSet(tasks) :
    ( /\ r.kind = "force" /\ r.pc = "update"
      /\ CopiesIn(r, tasks') < CopiesIn(r, tasks) )
    => /\ IsOpen(r.src) => tabUrl'[r.src] = r.url
       /\ r.tab # r.src => tabUrl'[r.tab] = tabUrl[r.tab]
       /\ CopiesIn([r EXCEPT !.pc = "exists"], tasks')
            = CopiesIn([r EXCEPT !.pc = "exists"], tasks) + 1

\* C35: a navigation-target event for a ticket URL that arrives while isNavigating
\* is set schedules the callback for its source tab; the callback's URL update goes
\* to the source tab and not to the new tab; and the new tab is closed afterwards,
\* also when the update of the source tab fails.
LoopBreaker ==
  /\ [][InterceptSchedules /\ UpdateOnSource]_vars
  /\ \A t \in Tabs : Forcing(t) ~> tabUrl[t] = Gone

\* The callback for tab 3, whose source tab 2 is closed, has gone on after its update
\* and has called chrome.tabs.remove for tab 3, which is still open.
RemovedAfterFailedUpdate ==
  /\ tabUrl[2] = Gone
  /\ IsOpen(3)
  /\ \E r \in BagToSet(tasks) :
       r.kind = "force" /\ r.pc = "remove" /\ r.src = 2 /\ r.tab = 3

\* The timer r is due and its callback runs in this step.
Fires(r) ==
  /\ r.pc = "timer" /\ r.left = 0
  /\ CopiesIn(r, tasks') < CopiesIn(r, tasks)

\* No 3 s callback resets isNavigating while an execution that set it is running.
\* (No second passes while an execution runs, so a timer that is due was set by an
\* execution that has settled.)
FlagTimerOwn ==
  \A r \in BagToSet(tasks) :
    ( /\ r.kind = "flag" /\ Fires(r)
      /\ isNavigating
      /\ \E p \in Slots : procs[p].pc # "idle" )
    => isNavigating'

\* No 5 s callback deletes a key that a running execution has added.
KeyTimerOwn ==
  \A r \in BagToSet(tasks) :
    ( /\ r.kind = "key" /\ Fires(r)
      /\ r.key \in ongoingNavigations
      /\ \E p \in Slots : procs[p].pc # "idle" /\ procs[p].held /\ procs[p].key = r.key )
    => r.key \in ongoingNavigations'

\* C36: the 3 s timer and the 5 s timer of an execution that has settled clear neither
\* isNavigating nor the key while a later execution holds them.
TimerReleasesOwn == [][FlagTimerOwn /\ KeyTimerOwn]_vars

\* A delayed close of tab t is scheduled or running.
ClosePending(t) == \E r \in BagToSet(tasks) : r.kind = "close" /\ r.tab = t

\* The tab an execution selects as its target has no delayed close pending.
TargetNotClosing ==
  \A p \in Slots :
    ( /\ procs[p].pc = "query"
      /\ procs'[p].pc = "activate" )
    => ~ClosePending(procs'[p].target)

\* Every execution has settled and every delayed close has run.
HandOffsFinished ==
  /\ \A p \in Slots : procs[p].pc = "idle"
  /\ \A t \in Tabs : ~ClosePending(t)

\* C37: no execution selects as its target a tab whose delayed close is pending; and
\* of two recent tabs that navigate to ticket URLs of one subdomain (tabs are closed
\* by hand-offs only, each hand-off having focused the other tab), one is open when
\* the executions and their delayed closes have finished.
TargetSurvives ==
  /\ [][TargetNotClosing]_vars
  /\ [](HandOffsFinished => ~(tabUrl[1] = Gone /\ tabUrl[2] = Gone))

\* The number of delayed closes that are scheduled or running.
Closes(bag) ==
  LET cs == { r \in BagToSet(bag) : r.kind = "close" }
  IN BagCardinality([r \in cs |-> bag[r]])

\* The execution in slot p has selected a target, both focusing calls have answered,
\* and in this step either the URLs are found equal or the navigation of the target
\* to the clean URL takes effect.
ReachesClose(p) ==
  LET cleanUrl == CleanUrl(procs[p].key[1], procs[p].key[2])
  IN /\ procs[p].target # NoTab
     /\ Len(procs[p].calls) >= 2
     /\ procs[p].calls[1] = "activate" /\ procs[p].calls[2] = "focus"
     /\ \/ /\ procs[p].pc = "focus"
           /\ focusedWin' = WinOf(procs[p].target)
           /\ procs[p].targetUrl = cleanUrl
        \/ /\ procs[p].pc \in {"script", "update474", "update480", "update485"}
           /\ IsOpen(procs[p].target)
           /\ tabUrl'[procs[p].target] = cleanUrl

\* C38: a delayed close is scheduled only by an execution that has selected and
\* focused a target and has found the URLs equal or navigated the target without a
\* rejection, and it is the close of that execution's new tab; an execution that
\* settles in another way schedules none; and chrome.tabs.remove is called for a tab
\* only by a timer callback that has found the tab to exist.
OriginRemovedLast ==
  [][ /\ Closes(tasks') > Closes(tasks)
         => \E p \in Slots :
              /\ Settles(p)
              /\ ReachesClose(p)
              /\ lastExit' \in {"sameUrl", "success", "completed"}
              /\ CopiesIn(CloseTimer(procs[p].newTab, procs[p].key, procs[p].target),
                          tasks')
                   > CopiesIn(CloseTimer(procs[p].newTab, procs[p].key,
                                         procs[p].target), tasks)
      /\ \A p \in Slots :
           (Settles(p) /\ lastExit' \in {"unparsable", "debounced", "noCandidate", "threw"})
           => Closes(tasks') = Closes(tasks)
      /\ \A t \in Tabs :
           removeCalls'[t] > removeCalls[t]
           => \E r \in BagToSet(tasks) :
                r.kind \in {"close", "force"} /\ r.pc = "exists" /\ r.tab = t /\ IsOpen(t)
    ]_vars

\* The execution for tab 2, the only tab opened since the script was loaded, has
\* settled by a rejection; no delayed close is scheduled, no removal was asked for,
\* and tab 2 still shows its ticket.
AbortKeepsOrigin ==
  /\ lastExit = "threw"
  /\ tabUrl[3] = NotYet
  /\ recentNewTabs[1] = NoEntry
  /\ recentNewTabs[2] # NoEntry
  /\ IsOpen(2)
  /\ IsResource(tabUrl[2])
  /\ Closes(tasks) = 0
  /\ \A t \in Tabs : removeCalls[t] = 0
  /\ \A p \in Slots : procs[p].pc = "idle"
  /\ pending = {}

\* isTabRecentlyNew, the value it returns when navigationTabs holds navTabs.
RecentWith(navTabs, tabId) ==
  IF tabId \in navTabs THEN FALSE
  ELSE IF recentNewTabs[tabId] = NoEntry THEN FALSE
  ELSE recentNewTabs[tabId] <= Secs(NEW_TAB_WINDOW_MS)

\* What handleNavigation and processZendeskNavigation decide for the event n of a
\* main frame on a ticket URL when navigationTabs holds navTabs: reuseZendeskTab is
\* called.
WouldStart(navTabs, n) ==
  /\ ~isNavigating
  /\ n.frame = 0
  /\ KeyOf(n.url) \notin ongoingNavigations
  /\ RecentWith(navTabs, n.tab)

RouteKept ==
  [][\A p \in Slots :
       ( /\ procs[p].pc \in {"script", "update474", "update480", "update485"}
         /\ Resumes(p)
         /\ tabUrl'[procs[p].target] # tabUrl[procs[p].target] )
       => /\ tabUrl'[procs[p].target].route = procs[p].url.route
          /\ tabUrl'[procs[p].target].id = procs[p].url.id
    ]_vars

====
